---- MODULE Spec2Model ----
(***************************************************************************)
(* The lexer of src/parse/lexer.rs as a state machine.                     *)
(*                                                                         *)
(* The source text is a sequence of one-character strings; a cursor is a   *)
(* 0-based offset, so the character under cursor p is inp[p + 1].  All     *)
(* characters used are ASCII, so character offsets are byte offsets.       *)
(*                                                                         *)
(* Every parser of the source is an operator  P(inp, p)  that returns      *)
(*   [ok, pos, val, stuck, depth]                                          *)
(* ok/pos/val are the parser's outcome (pos and val are meaningful only    *)
(* when ok); a failed parser leaves the rewinding to its caller, as the    *)
(* combinators `or`, `choice` and `repeated` do.  stuck records that some  *)
(* repetition ran an item that succeeded without consuming input; depth is *)
(* the deepest nesting of brace / format-string sections entered, counted  *)
(* over every alternative that was tried.                                  *)
(***************************************************************************)
EXTENDS Integers, Sequences, FiniteSets, TLC

VARIABLES input, pos, tokens, pc, result, stuck, depth

vars == <<input, pos, tokens, pc, result, stuck, depth>>

RECURSIVE SkipWhitespace(_, _)
RECURSIVE IdentEnd(_, _)
RECURSIVE DigitsEnd(_, _)
RECURSIVE DigitsValue(_)
RECURSIVE StringBody(_, _)
RECURSIVE GoText(_, _)
RECURSIVE GoTextLoop(_, _)
RECURSIVE LexFstringTokens(_, _)
RECURSIVE FstringTokensLoop(_, _)
RECURSIVE FmtStringBody(_, _)
RECURSIVE FirstMatch(_, _, _, _)
RECURSIVE LexSingle(_, _)

Max(a, b) == IF a >= b THEN a ELSE b

(***************************************************************************)
(* Bounds of the input families.                                           *)
(***************************************************************************)
MaxBody == 4

MaxWords == 3

MaxSuffix == 2

(***************************************************************************)
(* Character classes.                                                      *)
(***************************************************************************)
Letters ==
    {"a", "b", "c", "d", "e", "f", "g", "h", "i", "j", "k", "l", "m",
     "n", "o", "p", "q", "r", "s", "t", "u", "v", "w", "x", "y", "z",
     "A", "B", "C", "D", "E", "F", "G", "H", "I", "J", "K", "L", "M",
     "N", "O", "P", "Q", "R", "S", "T", "U", "V", "W", "X", "Y", "Z"}

Digits == {"0", "1", "2", "3", "4", "5", "6", "7", "8", "9"}

IsWhitespace(c) == c \in {" ", "\n", "\t", "\r"}

IsIdentStart(c) == c \in Letters \cup {"_"}

IsIdentContinue(c) == c \in Letters \cup Digits \cup {"_"}

CtrlChars ==
    {"!", "=", ":", "{", "}", ";", ",", "&", "(", ")", "-", ">", ".",
     "+", "*", "/", "%", "|", "[", "]"}

StringSpecial == {"\\", "\n", "\t", "\""}

CharSpecial == {"\\", "\n", "\t", "'"}

(***************************************************************************)
(* Spans and tokens.                                                       *)
(***************************************************************************)
SS(s, e) == [start |-> s, end |-> e, context |-> "file"]

EmptyRange == [start |-> 0, end |-> 0, context |-> "empty"]

Tok(k, s, items) == [k |-> k, s |-> s, n |-> 0, items |-> items]

IntTok(v) == [k |-> "IntLiteral", s |-> <<>>, n |-> v, items |-> <<>>]

Plain(k) == Tok(k, <<>>, <<>>)

ControlChar(c) == Tok("ControlChar", <<c>>, <<>>)

Spanned(t, sp) == [tok |-> t, span |-> sp]

FmtChar(c) == [c |-> "Char", ch |-> c, toks |-> <<>>]

FmtTokens(ts) == [c |-> "Tokens", ch |-> "", toks |-> ts]

(***************************************************************************)
(* Parser results and primitive parsers.                                   *)
(***************************************************************************)
Res(ok, p, v, st, d) == [ok |-> ok, pos |-> p, val |-> v, stuck |-> st, depth |-> d]

Ok(p, v) == Res(TRUE, p, v, FALSE, 0)

Fail(p) == Res(FALSE, p, <<>>, FALSE, 0)

Peek(inp, p) == IF p < Len(inp) THEN inp[p + 1] ELSE ""

Just(inp, p, lit) ==
    /\ p + Len(lit) <= Len(inp)
    /\ SubSeq(inp, p + 1, p + Len(lit)) = lit

SkipWhitespace(inp, p) ==
    IF IsWhitespace(Peek(inp, p)) THEN SkipWhitespace(inp, p + 1) ELSE p

IdentEnd(inp, p) ==
    IF IsIdentContinue(Peek(inp, p)) THEN IdentEnd(inp, p + 1) ELSE p

DigitsEnd(inp, p) ==
    IF Peek(inp, p) \in Digits THEN DigitsEnd(inp, p + 1) ELSE p

(***************************************************************************)
(* keyword_or_ident: the whole run of text::ident() is matched against the *)
(* keyword table.                                                          *)
(***************************************************************************)
KeywordTable ==
    { <<<<"m", "o", "d", "u", "l", "e">>, "Module">>,
      <<<<"u", "s", "e">>, "Use">>,
      <<<<"t", "y", "p", "e">>, "Type">>,
      <<<<"d", "u", "c", "k">>, "Duck">>,
      <<<<"g", "o">>, "Go">>,
      <<<<"s", "t", "r", "u", "c", "t">>, "Struct">>,
      <<<<"f", "n">>, "Function">>,
      <<<<"r", "e", "t", "u", "r", "n">>, "Return">>,
      <<<<"l", "e", "t">>, "Let">>,
      <<<<"i", "f">>, "If">>,
      <<<<"e", "l", "s", "e">>, "Else">>,
      <<<<"w", "h", "i", "l", "e">>, "While">>,
      <<<<"b", "r", "e", "a", "k">>, "Break">>,
      <<<<"c", "o", "n", "t", "i", "n", "u", "e">>, "Continue">>,
      <<<<"a", "s">>, "As">>,
      <<<<"m", "a", "t", "c", "h">>, "Match">> }

Keywords == {e[1] : e \in KeywordTable}

KeywordToken(str) ==
    IF str \in Keywords
    THEN Plain((CHOOSE e \in KeywordTable : e[1] = str)[2])
    ELSE Tok("Ident", str, <<>>)

\* keyword_or_ident as a prefix match: a keyword at the cursor wins over the run.
KeywordOrIdentByPrefix(inp, p) ==
    LET hits == {k \in Keywords : Just(inp, p, k)}
        e == IdentEnd(inp, p + 1)
    IN IF hits # {}
       THEN LET k == CHOOSE h \in hits : \A g \in hits : Len(g) <= Len(h)
            IN Ok(p + Len(k), KeywordToken(k))
       ELSE IF IsIdentStart(Peek(inp, p))
            THEN Ok(e, Tok("Ident", SubSeq(inp, p + 1, e), <<>>))
            ELSE Fail(p)

KeywordOrIdent(inp, p) ==
    IF IsIdentStart(Peek(inp, p))
    THEN LET e == IdentEnd(inp, p + 1)
         IN Ok(e, KeywordToken(SubSeq(inp, p + 1, e)))
    ELSE Fail(p)

Ctrl(inp, p) ==
    IF Peek(inp, p) \in CtrlChars THEN Ok(p + 1, ControlChar(Peek(inp, p))) ELSE Fail(p)

Bool(inp, p) ==
    IF Just(inp, p, <<"t", "r", "u", "e">>) THEN Ok(p + 4, Tok("BoolLiteral", <<"true">>, <<>>))
    ELSE IF Just(inp, p, <<"f", "a", "l", "s", "e">>)
         THEN Ok(p + 5, Tok("BoolLiteral", <<"false">>, <<>>))
         ELSE Fail(p)

Equals(inp, p) == IF Just(inp, p, <<"=", "=">>) THEN Ok(p + 2, Plain("Equals")) ELSE Fail(p)

ScopeRes(inp, p) == IF Just(inp, p, <<":", ":">>) THEN Ok(p + 2, Plain("ScopeRes")) ELSE Fail(p)

ThinArrow(inp, p) == IF Just(inp, p, <<"-", ">">>) THEN Ok(p + 2, Plain("ThinArrow")) ELSE Fail(p)

(***************************************************************************)
(* string_lexer, char_lexer and num_literal.                               *)
(***************************************************************************)
Escape(inp, p, table) ==
    LET hits == {i \in 1..Len(table) : Just(inp, p, <<"\\", table[i][1]>>)}
    IN IF hits = {} THEN Fail(p)
       ELSE LET i == CHOOSE h \in hits : \A g \in hits : h <= g
            IN Ok(p + 2, <<table[i][2]>>)

StringEscapes == << <<"\\", "\\">>, <<"n", "\n">>, <<"t", "\t">>, <<"\"", "\"">> >>

FmtEscapes ==
    << <<"\\", "\\">>, <<"{", "{">>, <<"n", "\n">>, <<"t", "\t">>, <<"\"", "\"">> >>

CharEscapes == << <<"\\", "\\">>, <<"n", "\n">>, <<"t", "\t">>, <<"'", "'">> >>

StringItem(inp, p) ==
    IF Peek(inp, p) # "" /\ Peek(inp, p) \notin StringSpecial
    THEN Ok(p + 1, <<Peek(inp, p)>>)
    ELSE Escape(inp, p, StringEscapes)

\* a.or(b), choice((a, b)): b is tried, from the same cursor, when a fails.
OrElse(a, b) ==
    IF a.ok THEN a
    ELSE Res(b.ok, b.pos, b.val, a.stuck \/ b.stuck, Max(a.depth, b.depth))

\* repeated(): the repetition ends, rewound to cursor p, at the first item that
\* fails.  An item that succeeds without consuming would be repeated for ever: the
\* repetition is cut there and marked stuck.
LoopEnd(p, it) == Res(TRUE, p, <<>>, it.stuck \/ it.ok, it.depth)

\* repeated().collect(): the item's output followed by the rest of the repetition.
Cons(it, rest) ==
    Res(TRUE, rest.pos, it.val \o rest.val, it.stuck \/ rest.stuck,
        Max(it.depth, rest.depth))

StringBodyStep(inp, p, it) ==
    IF ~it.ok \/ it.pos = p THEN LoopEnd(p, it) ELSE Cons(it, StringBody(inp, it.pos))

StringBody(inp, p) == StringBodyStep(inp, p, StringItem(inp, p))

StringClose(inp, p, body) ==
    IF Peek(inp, body.pos) = "\""
    THEN Res(TRUE, body.pos + 1, Tok("StringLiteral", body.val, <<>>), body.stuck, 0)
    ELSE Res(FALSE, p, <<>>, body.stuck, 0)

StringLexer(inp, p) ==
    IF Peek(inp, p) # "\"" THEN Fail(p) ELSE StringClose(inp, p, StringBody(inp, p + 1))

CharItem(inp, p) ==
    IF Peek(inp, p) # "" /\ Peek(inp, p) \notin CharSpecial
    THEN Ok(p + 1, <<Peek(inp, p)>>)
    ELSE Escape(inp, p, CharEscapes)

CharClose(inp, p, it) ==
    IF it.ok /\ Peek(inp, it.pos) = "'"
    THEN Ok(it.pos + 1, Tok("CharLiteral", it.val, <<>>))
    ELSE Fail(p)

CharLexer(inp, p) ==
    IF Peek(inp, p) # "'" THEN Fail(p) ELSE CharClose(inp, p, CharItem(inp, p + 1))

DigitVal(c) == CHOOSE d \in 0..9 : <<"0", "1", "2", "3", "4", "5", "6", "7", "8", "9">>[d + 1] = c

DigitsValue(ds) ==
    IF ds = <<>> THEN 0
    ELSE 10 * DigitsValue(SubSeq(ds, 1, Len(ds) - 1)) + DigitVal(ds[Len(ds)])

I64MaxDigits ==
    <<"9", "2", "2", "3", "3", "7", "2", "0", "3", "6", "8", "5", "4", "7", "7", "5", "8", "0", "7">>

FitsI64(ds) ==
    \/ Len(ds) < Len(I64MaxDigits)
    \/ /\ Len(ds) = Len(I64MaxDigits)
       /\ \/ ds = I64MaxDigits
          \/ \E i \in 1..Len(ds) :
                /\ SubSeq(ds, 1, i - 1) = SubSeq(I64MaxDigits, 1, i - 1)
                /\ DigitVal(ds[i]) < DigitVal(I64MaxDigits[i])

\* text::int(10): a digit run with no leading zero, or a single '0'.
TextInt(inp, p) ==
    IF Peek(inp, p) \in Digits \ {"0"} THEN Ok(DigitsEnd(inp, p + 1), <<>>)
    ELSE IF Peek(inp, p) = "0" THEN Ok(p + 1, <<>>)
    ELSE Fail(p)

NumFrom(inp, p, pre) ==
    IF ~pre.ok \/ ~FitsI64(SubSeq(inp, p + 1, pre.pos)) THEN Fail(p)
    ELSE IF Peek(inp, pre.pos) = "." /\ Peek(inp, pre.pos + 1) \in Digits
         THEN Ok(DigitsEnd(inp, pre.pos + 1),
                 Tok("FloatLiteral", SubSeq(inp, p + 1, DigitsEnd(inp, pre.pos + 1)), <<>>))
         ELSE Ok(pre.pos, IntTok(DigitsValue(SubSeq(inp, p + 1, pre.pos))))

NumLiteral(inp, p) == NumFrom(inp, p, TextInt(inp, p))

(***************************************************************************)
(* go_text_parser and inline_go_parser.                                    *)
(***************************************************************************)
GoTextChar(inp, p) ==
    IF Peek(inp, p) # "" /\ Peek(inp, p) \notin {"{", "}"}
    THEN Ok(p + 1, <<Peek(inp, p)>>)
    ELSE Fail(p)

\* go_text_parser's item with the plain character peeked at and rewound.
GoTextItemRewound(inp, p) ==
    OrElse(IF Peek(inp, p) = "{" THEN GoText(inp, p) ELSE Fail(p),
           Res(GoTextChar(inp, p).ok, p, <<Peek(inp, p)>>, FALSE, 0))

GoTextItem(inp, p) ==
    OrElse(IF Peek(inp, p) = "{" THEN GoText(inp, p) ELSE Fail(p), GoTextChar(inp, p))

GoTextLoopStep(inp, p, it) ==
    IF ~it.ok \/ it.pos = p THEN LoopEnd(p, it) ELSE Cons(it, GoTextLoop(inp, it.pos))

GoTextLoop(inp, p) == GoTextLoopStep(inp, p, GoTextItem(inp, p))

GoTextClose(inp, p, body) ==
    IF Peek(inp, body.pos) = "}"
    THEN Res(TRUE, body.pos + 1, <<"{">> \o body.val \o <<"}">>, body.stuck, 1 + body.depth)
    ELSE Res(FALSE, p, <<>>, body.stuck, 1 + body.depth)

GoText(inp, p) ==
    IF Peek(inp, p) # "{" THEN Fail(p) ELSE GoTextClose(inp, p, GoTextLoop(inp, p + 1))

\* The slice x[1..x.len()] : the closing brace is kept.
InlineGoKeepsBrace(x) ==
    IF x.ok
    THEN Res(TRUE, x.pos, Tok("InlineGo", SubSeq(x.val, 2, Len(x.val)), <<>>), x.stuck, x.depth)
    ELSE x

\* Token::InlineGo(x[1..x.len() - 1]).
InlineGo(x) ==
    IF x.ok
    THEN Res(TRUE, x.pos, Tok("InlineGo", SubSeq(x.val, 2, Len(x.val) - 1), <<>>),
             x.stuck, x.depth)
    ELSE x

InlineGoBlock(inp, p, ws) ==
    IF ws = p + 2 \/ Peek(inp, ws) # "{" THEN Fail(p) ELSE InlineGo(GoText(inp, ws))

InlineGoParser(inp, p) ==
    IF Just(inp, p, <<"g", "o">>)
    THEN InlineGoBlock(inp, p, SkipWhitespace(inp, p + 2))
    ELSE Fail(p)

(***************************************************************************)
(* lex_fstring_tokens: a brace group lexed with the token lexer; the       *)
(* group's own braces are pushed with empty_range().                       *)
(***************************************************************************)
One(x) == Res(x.ok, x.pos, <<x.val>>, x.stuck, x.depth)

FstringTokensItem(inp, p) ==
    OrElse(IF Peek(inp, p) = "{" THEN LexFstringTokens(inp, p) ELSE Fail(p),
           IF Peek(inp, p) # "" /\ Peek(inp, p) \notin {"{", "}"}
           THEN One(LexSingle(inp, p))
           ELSE Fail(p))

FstringTokensLoopStep(inp, p, it) ==
    IF ~it.ok \/ it.pos = p THEN LoopEnd(p, it) ELSE Cons(it, FstringTokensLoop(inp, it.pos))

FstringTokensLoop(inp, p) == FstringTokensLoopStep(inp, p, FstringTokensItem(inp, p))

FstringTokensClose(inp, p, x) ==
    IF Peek(inp, x.pos) = "}"
    THEN Res(TRUE, x.pos + 1,
             <<Spanned(ControlChar("{"), EmptyRange)>> \o x.val
                 \o <<Spanned(ControlChar("}"), EmptyRange)>>,
             x.stuck, 1 + x.depth)
    ELSE Res(FALSE, p, <<>>, x.stuck, 1 + x.depth)

LexFstringTokens(inp, p) ==
    IF Peek(inp, p) # "{" THEN Fail(p)
    ELSE FstringTokensClose(inp, p, FstringTokensLoop(inp, p + 1))

(***************************************************************************)
(* fmt_string.                                                             *)
(***************************************************************************)
FmtCharItem(inp, p) ==
    IF Peek(inp, p) # "" /\ Peek(inp, p) \notin StringSpecial
    THEN Ok(p + 1, <<Peek(inp, p)>>)
    ELSE Escape(inp, p, FmtEscapes)

\* FmtStringContents::Tokens(e[1..e.len() - 1]).
FmtSection(e) ==
    Res(e.ok, e.pos, <<FmtTokens(SubSeq(e.val, 2, Len(e.val) - 1))>>, e.stuck, e.depth)

FmtLiteralChar(c) ==
    Res(c.ok, c.pos, IF c.ok THEN <<FmtChar(c.val[1])>> ELSE <<>>, c.stuck, c.depth)

FmtStringItem(inp, p) ==
    OrElse(IF Peek(inp, p) = "{" THEN FmtSection(LexFstringTokens(inp, p)) ELSE Fail(p),
           FmtLiteralChar(FmtCharItem(inp, p)))

FmtStringBodyStep(inp, p, it) ==
    IF ~it.ok \/ it.pos = p THEN LoopEnd(p, it) ELSE Cons(it, FmtStringBody(inp, it.pos))

FmtStringBody(inp, p) == FmtStringBodyStep(inp, p, FmtStringItem(inp, p))

FmtStringClose(inp, p, body) ==
    IF Peek(inp, body.pos) = "\""
    THEN Res(TRUE, body.pos + 1, Tok("FormatStringLiteral", <<>>, body.val),
             body.stuck, 1 + body.depth)
    ELSE Res(FALSE, p, <<>>, body.stuck, 1 + body.depth)

FmtString(inp, p) ==
    IF Just(inp, p, <<"f", "\"">>)
    THEN FmtStringClose(inp, p, FmtStringBody(inp, p + 2))
    ELSE Fail(p)

(***************************************************************************)
(* token: the ordered alternatives, and lex_single: the token with its     *)
(* span, padded by whitespace on both sides.                               *)
(***************************************************************************)
\* The alternatives with ctrl tried before the two-character operators.
TokenOrderCtrlFirst ==
    <<"inline_go", "fmt_string", "ctrl", "thin_arrow", "scope_res", "bool", "equals",
      "keyword_or_ident", "string", "num", "char">>

TokenOrder ==
    <<"inline_go", "fmt_string", "thin_arrow", "scope_res", "bool", "equals",
      "keyword_or_ident", "ctrl", "string", "num", "char">>

TokenAlt(name, inp, p) ==
    CASE name = "inline_go" -> InlineGoParser(inp, p)
      [] name = "fmt_string" -> FmtString(inp, p)
      [] name = "thin_arrow" -> ThinArrow(inp, p)
      [] name = "scope_res" -> ScopeRes(inp, p)
      [] name = "bool" -> Bool(inp, p)
      [] name = "equals" -> Equals(inp, p)
      [] name = "keyword_or_ident" -> KeywordOrIdent(inp, p)
      [] name = "ctrl" -> Ctrl(inp, p)
      [] name = "string" -> StringLexer(inp, p)
      [] name = "num" -> NumLiteral(inp, p)
      [] name = "char" -> CharLexer(inp, p)

FirstMatch(order, i, inp, p) ==
    IF i > Len(order) THEN Fail(p)
    ELSE OrElse(TokenAlt(order[i], inp, p), FirstMatch(order, i + 1, inp, p))

Token(inp, p) == FirstMatch(TokenOrder, 1, inp, p)

\* map_with: the token with the span of what it consumed; padded(): whitespace is
\* skipped before the token (up to cursor s) and after it.
WithSpan(inp, p, s, t) ==
    IF t.ok
    THEN Res(TRUE, SkipWhitespace(inp, t.pos), Spanned(t.val, SS(s, t.pos)), t.stuck, t.depth)
    ELSE Res(FALSE, p, <<>>, t.stuck, t.depth)

LexSingle(inp, p) ==
    WithSpan(inp, p, SkipWhitespace(inp, p), Token(inp, SkipWhitespace(inp, p)))

(***************************************************************************)
(* The inputs.  Three families of source texts:                            *)
(*   - a body of up to MaxBody characters of brace-structured text, bare   *)
(*     or inside a format string, an embedded section or an inline-go      *)
(*     block;                                                              *)
(*   - up to MaxWords words, operators and blanks in a row;                *)
(*   - a keyword or boolean word followed by up to MaxSuffix characters.   *)
(***************************************************************************)
RECURSIVE Concat(_)

Concat(ss) == IF ss = <<>> THEN <<>> ELSE Head(ss) \o Concat(Tail(ss))

SeqsUpTo(S, n) == UNION {[1..k -> S] : k \in 0..n}

BodyAlphabet == {"{", "}", " ", "x", "\"", "\\"}

Wrappers ==
    { << <<>>, <<>> >>,
      << <<"f", "\"">>, <<"\"">> >>,
      << <<"f", "\"", "{">>, <<"}", "\"">> >>,
      << <<"g", "o", " ">>, <<>> >>,
      << <<"g", "o", " ", "{">>, <<"}">> >> }

BodyInputs == {w[1] \o b \o w[2] : w \in Wrappers, b \in SeqsUpTo(BodyAlphabet, MaxBody)}

Words ==
    { <<"t", "y", "p", "e">>, <<"g", "o">>, <<"t", "r", "u", "e">>, <<"f">>,
      <<"Y">>, <<"1">>, <<" ">>, <<"\n">>, <<"-">>, <<">">>, <<":">>, <<"{">> }

WordInputs == {Concat(ws) : ws \in SeqsUpTo(Words, MaxWords)}

SuffixAlphabet == {"x", "_", "1", " ", "{"}

BoolWords == {<<"t", "r", "u", "e">>, <<"f", "a", "l", "s", "e">>}

ReservedWords == Keywords \cup BoolWords

SuffixInputs == {k \o sfx : k \in ReservedWords, sfx \in SeqsUpTo(SuffixAlphabet, MaxSuffix)}

Inputs == BodyInputs \cup WordInputs \cup SuffixInputs

(***************************************************************************)
(* The state machine: lexer(..) is lex_single repeated from the start of   *)
(* the text; parse(src) accepts the outcome when the whole text has been   *)
(* consumed.                                                               *)
(***************************************************************************)
Init ==
    /\ input \in Inputs
    /\ pos = 0
    /\ tokens = <<>>
    /\ pc = "lexing"
    /\ result = "none"
    /\ stuck = FALSE
    /\ depth = 0

\* One more item of the repetition: lex_single succeeds and its token is collected.
LexToken ==
    /\ pc = "lexing"
    /\ \E r \in {LexSingle(input, pos)} :
          /\ r.ok
          /\ tokens' = Append(tokens, r.val)
          /\ pos' = r.pos
          /\ stuck' = (stuck \/ r.stuck \/ r.pos = pos)
          /\ depth' = Max(depth, r.depth)
          /\ pc' = IF r.pos = pos THEN "diverged" ELSE "lexing"
    /\ UNCHANGED <<input, result>>

\* lex_single fails: the repetition ends where the failed item began, and the
\* parse succeeds exactly when that is the end of the text.
LexEnd ==
    /\ pc = "lexing"
    /\ \E r \in {LexSingle(input, pos)} :
          /\ ~r.ok
          /\ stuck' = (stuck \/ r.stuck)
          /\ depth' = Max(depth, r.depth)
    /\ result' = IF pos = Len(input) THEN "ok" ELSE "error"
    /\ pc' = "done"
    /\ UNCHANGED <<input, pos, tokens>>

Next == LexToken \/ LexEnd

Spec == Init /\ [][Next]_vars

(***************************************************************************)
(* Vocabulary of the properties.                                           *)
(***************************************************************************)
RECURSIVE SectionLists(_)
RECURSIVE BraceBalance(_, _, _)
RECURSIVE MatchingClose(_, _, _)

Range(f) == {f[i] : i \in DOMAIN f}

\* The token lists of the Tokens items, at every nesting depth, of the tokens ts.
SectionLists(ts) ==
    UNION { {it.toks} \cup SectionLists(it.toks) :
              it \in {x \in UNION {Range(t.tok.items) : t \in Range(ts)} : x.c = "Tokens"} }

\* Every token list the lexer returned: the top-level one and the nested ones.
TokenLists == {tokens} \cup SectionLists(tokens)

AllSpanned == UNION {Range(l) : l \in TokenLists}

Located == {t \in AllSpanned : t.span.context = "file"}

\* The brace depth after the tokens l[i..], starting at depth d; -1 once a closing
\* brace has no opening one.
BraceBalance(l, i, d) ==
    IF d < 0 THEN -1
    ELSE IF i > Len(l) THEN d
    ELSE IF l[i].tok = ControlChar("{") THEN BraceBalance(l, i + 1, d + 1)
    ELSE IF l[i].tok = ControlChar("}") THEN BraceBalance(l, i + 1, d - 1)
    ELSE BraceBalance(l, i + 1, d)

\* The cursor just after the '}' that returns the brace depth to zero, scanning the
\* text from cursor p at depth d; -1 when the text ends first.
MatchingClose(inp, p, d) ==
    IF p >= Len(inp) THEN -1
    ELSE IF inp[p + 1] = "{" THEN MatchingClose(inp, p + 1, d + 1)
    ELSE IF inp[p + 1] = "}"
         THEN (IF d = 1 THEN p + 1 ELSE MatchingClose(inp, p + 1, d - 1))
         ELSE MatchingClose(inp, p + 1, d)

IsAsciiIdent(inp) ==
    /\ inp # <<>>
    /\ IsIdentStart(inp[1])
    /\ \A i \in 1..Len(inp) : IsIdentContinue(inp[i])

IsProperPrefix(k, run) == Len(k) < Len(run) /\ SubSeq(run, 1, Len(k)) = k

\* The cursor of the '{' of a text that starts with 'go', whitespace and '{'; -1 for
\* any other text.
GoBrace(inp) ==
    LET b == IF Len(inp) >= 2 THEN SkipWhitespace(inp, 2) ELSE 0
    IN IF Len(inp) >= 4 /\ inp[1] = "g" /\ inp[2] = "o" /\ b > 2 /\ Peek(inp, b) = "{"
       THEN b ELSE -1

Openers(inp) ==
    Cardinality({i \in 1..Len(inp) : inp[i] = "{"})
        + Cardinality({i \in 1..Len(inp) - 1 : inp[i] = "f" /\ inp[i + 1] = "\""})

Done == pc = "done"

(***************************************************************************)
(* C1.  An input that is exactly one ASCII identifier lexes to exactly one *)
(* token spanning the whole input: the keyword token when the input is an  *)
(* entry of the keyword table, Ident(input) otherwise.  Stated for every   *)
(* identifier but the two words 'true' and 'false' themselves, which the   *)
(* tests of the source lex as BoolLiteral; identifiers that merely start   *)
(* with one of them ('truex') are covered.                                 *)
(***************************************************************************)
C1_SingleIdentifierToken ==
    (Done /\ IsAsciiIdent(input) /\ input \notin BoolWords) =>
        /\ result = "ok"
        /\ tokens = <<Spanned(KeywordToken(input), SS(0, Len(input)))>>

(***************************************************************************)
(* C2.  An input of one or more whitespace characters lexes successfully   *)
(* to the empty token sequence, with the whole input consumed.             *)
(***************************************************************************)
C2_WhitespaceOnlySucceeds ==
    (Done /\ input # <<>> /\ \A i \in 1..Len(input) : IsWhitespace(input[i])) =>
        /\ result = "ok"
        /\ tokens = <<>>
        /\ pos = Len(input)

(***************************************************************************)
(* C3.  The token list of every Tokens item of a format string is          *)
(* brace-balanced: an embedded section extends to the '}' that balances    *)
(* its '{' and holds the tokens between the two.  Stated for texts whose   *)
(* braces balance and that hold no backslash and no quote besides the two  *)
(* of one format string, so that every brace of the text is a brace of an  *)
(* embedded section.                                                       *)
(***************************************************************************)
Count(inp, c) == Cardinality({i \in 1..Len(inp) : inp[i] = c})

PlainBalancedFormatString(inp) ==
    /\ Just(inp, 0, <<"f", "\"">>)
    /\ inp[Len(inp)] = "\""
    /\ Count(inp, "\"") = 2
    /\ Count(inp, "\\") = 0
    /\ Count(inp, "{") = Count(inp, "}")
    /\ \A i \in 1..Len(inp) :
          Count(SubSeq(inp, 1, i), "}") <= Count(SubSeq(inp, 1, i), "{")

C3_SectionsBraceBalanced ==
    (Done /\ PlainBalancedFormatString(input)) =>
        \A l \in SectionLists(tokens) : BraceBalance(l, 1, 0) = 0

(***************************************************************************)
(* C4.  'go', whitespace, '{' with the end of input reached before the     *)
(* brace depth returns to zero fails with an error; it never lexes as the  *)
(* Go keyword followed by control characters.                              *)
(***************************************************************************)
C4_UnterminatedGoBlockFails ==
    (Done /\ GoBrace(input) >= 0 /\ MatchingClose(input, GoBrace(input), 0) = -1) =>
        result = "error"

(***************************************************************************)
(* C5.  'go', whitespace, '{', body, '}' whose last '}' is the first to    *)
(* return the brace depth to zero lexes to one InlineGo token holding      *)
(* exactly body: inner braces kept, only the outermost pair removed.       *)
(***************************************************************************)
C5_InlineGoVerbatim ==
    (Done /\ GoBrace(input) >= 0 /\ MatchingClose(input, GoBrace(input), 0) = Len(input)) =>
        /\ result = "ok"
        /\ tokens = <<Spanned(Tok("InlineGo",
                                  SubSeq(input, GoBrace(input) + 2, Len(input) - 1), <<>>),
                              SS(0, Len(input)))>>

C5_Witness ==
    /\ Done
    /\ GoBrace(input) >= 0
    /\ MatchingClose(input, GoBrace(input), 0) = Len(input)
    /\ Len(tokens) = 1
    /\ tokens[1].tok.k = "InlineGo"
    /\ \E i, j \in 1..Len(tokens[1].tok.s) :
          tokens[1].tok.s[i] = "{" /\ tokens[1].tok.s[j] = "\""

(***************************************************************************)
(* C6.  Keyword recognition is never a prefix match: a token that starts   *)
(* where the maximal run of identifier characters has a keyword as a       *)
(* proper prefix is one Ident token holding the whole run.                 *)
(***************************************************************************)
IdentRun(s) == SubSeq(input, s + 1, IdentEnd(input, s))

KeywordPrefixed(s) ==
    /\ IsIdentStart(Peek(input, s))
    /\ \E k \in Keywords : IsProperPrefix(k, IdentRun(s))

C6_KeywordNeverPrefix ==
    \A t \in Located :
        KeywordPrefixed(t.span.start) =>
            t = Spanned(Tok("Ident", IdentRun(t.span.start), <<>>),
                        SS(t.span.start, t.span.start + Len(IdentRun(t.span.start))))

C6_Witness ==
    /\ Done
    /\ result = "ok"
    /\ Len(tokens) >= 2
    /\ \E i \in 1..Len(tokens) :
          /\ KeywordPrefixed(tokens[i].span.start)
          /\ tokens[i].tok.k = "Ident"
          /\ tokens[i].span.start > 0

(***************************************************************************)
(* C7.  A token that starts at '->' is the single token ThinArrow and one  *)
(* that starts at '::' is ScopeRes; no token list holds ControlChar('-')   *)
(* then ControlChar('>'), or ControlChar(':') twice, for adjacent          *)
(* characters.                                                             *)
(***************************************************************************)
SplitPair(l, a, b) ==
    \E i \in 1..Len(l) - 1 :
        /\ l[i].tok = ControlChar(a)
        /\ l[i + 1].tok = ControlChar(b)
        /\ l[i].span.context = "file"
        /\ l[i + 1].span.context = "file"
        /\ l[i].span.end = l[i + 1].span.start

C7_CompoundOperatorsWhole ==
    /\ \A t \in Located :
          /\ Just(input, t.span.start, <<"-", ">">>) =>
                t = Spanned(Plain("ThinArrow"), SS(t.span.start, t.span.start + 2))
          /\ Just(input, t.span.start, <<":", ":">>) =>
                t = Spanned(Plain("ScopeRes"), SS(t.span.start, t.span.start + 2))
    /\ \A l \in TokenLists : ~SplitPair(l, "-", ">") /\ ~SplitPair(l, ":", ":")

C7_Witness ==
    /\ Done
    /\ result = "ok"
    /\ \E i, j \in 1..Len(tokens) :
          /\ tokens[i].tok = ControlChar("-")
          /\ tokens[j].tok = Plain("ThinArrow")
          /\ tokens[i].span.end = tokens[j].span.start

(***************************************************************************)
(* C8.  In a format string an unescaped '{' is never recorded as a Char    *)
(* item: the literal holds no more Char('{') items than its text holds     *)
(* backslash-'{' pairs.                                                    *)
(***************************************************************************)
BraceChars(t) ==
    Cardinality({i \in 1..Len(t.tok.items) : t.tok.items[i] = FmtChar("{")})

BraceEscapes(t) ==
    Cardinality({i \in (t.span.start + 1)..(t.span.end - 1) :
                    input[i] = "\\" /\ input[i + 1] = "{"})

C8_NoUnescapedBraceChar ==
    \A t \in Located :
        t.tok.k = "FormatStringLiteral" => BraceChars(t) <= BraceEscapes(t)

(***************************************************************************)
(* C9.  Every returned token, at every nesting depth, carries the span of  *)
(* the characters it consumed; none carries the sentinel empty span.       *)
(***************************************************************************)
C9_EveryTokenLocated ==
    \A t \in AllSpanned :
        /\ t.span # EmptyRange
        /\ t.span.context = "file"
        /\ t.span.start < t.span.end
        /\ t.span.end <= Len(input)

(***************************************************************************)
(* C10.  Lexing terminates with a token sequence or an error: every        *)
(* successful step of every repetition consumes input, the nesting of      *)
(* format-string and brace sections is bounded by the number of '{' and    *)
(* 'f"' openers of the input, and the token loop, whose cursor never       *)
(* passes the end of the input, either moves its cursor forward or ends.   *)
(***************************************************************************)
C10_Progress ==
    /\ ~stuck
    /\ pc \in {"lexing", "done"}
    /\ depth <= Openers(input)
    /\ pos <= Len(input)
    /\ (pc = "done") <=> (result \in {"ok", "error"})

C10_Terminates ==
    /\ []C10_Progress
    /\ [][pos' > pos \/ pc' = "done"]_vars

C10_Witness ==
    /\ Done
    /\ result = "ok"
    /\ depth >= 2
    /\ \E t \in Range(tokens) :
          /\ t.tok.k = "FormatStringLiteral"
          /\ \E i \in 1..Len(t.tok.items) : Len(t.tok.items[i].toks) >= 2

====
